---- MODULE Spec2Model ----
(***************************************************************************)
(* Model of the Geo-temporal Weather Forecast Platform API (src/main.py,   *)
(* src/schemas.py).  Each HTTP handler is one action: it takes a request   *)
(* and leaves the request it served and the response it produced in req    *)
(* and resp, until the response is delivered.                              *)
(* The document store gateway (module database) is not part of the         *)
(* sources at hand and is modelled from its description: collections are   *)
(* sequences of documents in insertion order.                              *)
(*                                                                         *)
(* Numbers: floats are modelled by integers; meteogram values are kept in  *)
(* hundredths (15.0 is 1500), which is exact because the code rounds to    *)
(* two decimals.                                                           *)
(***************************************************************************)
EXTENDS Integers, Sequences, FiniteSets, TLC

VARIABLES forecast, alert, db, req, resp, created

vars == <<forecast, alert, db, req, resp, created>>

(***************************************************************************)
(* Bounds of the model.                                                    *)
(***************************************************************************)
MaxForecasts == 2

MaxAlerts == 2

(***************************************************************************)
(* Generic helpers on records (Python dicts).                              *)
(***************************************************************************)
EmptyDict == [k \in {} |-> 0]

Opt(k, o) == IF o = <<>> THEN EmptyDict ELSE (k :> o[1])

WithField(r, k, v) == [f \in DOMAIN r \cup {k} |-> IF f = k THEN v ELSE r[f]]

Without(r, k) == [f \in DOMAIN r \ {k} |-> r[f]]

Take(s, n) == IF Len(s) <= n THEN s ELSE SubSeq(s, 1, n)

Has(r, k) == k \in DOMAIN r

(***************************************************************************)
(* bson.ObjectId: 12 bytes, written as 24 hexadecimal characters.  An      *)
(* ObjectId is the sequence of its 24 nibbles; an identifier string is a   *)
(* sequence of characters.                                                 *)
(***************************************************************************)
ObjectIdHexLen == 24

HexLower == <<"0", "1", "2", "3", "4", "5", "6", "7", "8", "9", "a", "b", "c", "d", "e", "f">>

HexUpper == <<"0", "1", "2", "3", "4", "5", "6", "7", "8", "9", "A", "B", "C", "D", "E", "F">>

IsHexChar(c) == \E v \in 1..16 : HexLower[v] = c \/ HexUpper[v] = c

HexValue(c) == (CHOOSE v \in 1..16 : HexLower[v] = c \/ HexUpper[v] = c) - 1

\* ObjectId.is_valid for a str argument
ObjectIdIsValid(s) == Len(s) = ObjectIdHexLen /\ \A i \in 1..Len(s) : IsHexChar(s[i])

\* ObjectId(forecast_id), defined when ObjectIdIsValid(s)
ObjectId(s) == [i \in 1..ObjectIdHexLen |-> HexValue(s[i])]

\* str(oid)
ObjectIdStr(oid) == [i \in 1..ObjectIdHexLen |-> HexLower[oid[i] + 1]]

(***************************************************************************)
(* Exceptions, handler outcomes and the responses FastAPI builds of them.  *)
(***************************************************************************)
Raise(e) == [raised |-> TRUE, exc |-> e]

Return(v) == [raised |-> FALSE, value |-> v]

HTTPException(code, text) == [type |-> "HTTPException", status_code |-> code, detail |-> text]

InvalidId == [type |-> "InvalidId", detail |-> "not a valid ObjectId, it must be a 12-byte input or a 24-character hex string"]

StorageError == [type |-> "Exception", detail |-> "Database not available"]

\* str(e)
ExcStr(e) == IF e.type = "HTTPException" THEN ToString(e.status_code) \o ": " \o e.detail ELSE e.detail

\* mutant: the handler answers a caught exception with 400
CatchAllAs400(outcome) == IF outcome.raised THEN Raise(HTTPException(400, ExcStr(outcome.exc))) ELSE outcome

\* except Exception as e: raise HTTPException(status_code=500, detail=str(e))
CatchAll(outcome) == IF outcome.raised THEN Raise(HTTPException(500, ExcStr(outcome.exc))) ELSE outcome

\* what the framework sends for a handler that returned or raised HTTPException
Respond(outcome) == IF outcome.raised THEN [status |-> outcome.exc.status_code, detail |-> outcome.exc.detail] ELSE [status |-> 200, body |-> outcome.value]

\* what the framework sends when a body or a query parameter fails validation
RequestValidationError == [status |-> 422, detail |-> "validation error"]

(***************************************************************************)
(* schemas.py: the three pydantic models.  A payload is the JSON object of *)
(* the request body, a record that holds the keys the client sent.         *)
(* XxxValid says whether pydantic accepts the payload; Xxx(p) is the       *)
(* validated model: the schema's fields, defaults filled in, keys the      *)
(* schema does not know dropped.                                           *)
(***************************************************************************)
ForecastModels == {"WRF", "GFS", "ICON", "ECMWF"}

ForecastVariables == {"t2m", "u10", "v10", "precip", "mslp"}

LeadHoursMin == 1

LeadHoursMax == 240

BboxItems == 4

ForecastFields == {"model", "init_time", "lead_hours", "variable", "bbox", "grid_res_km", "times", "grid"}

ForecastRequired == {"init_time", "lead_hours", "bbox", "times", "grid"}

ForecastDefaults == [model |-> "WRF", variable |-> "t2m", grid_res_km |-> 10]

\* mutant: bbox with min_items only
ForecastValidMinItems(p) ==
    /\ ForecastRequired \subseteq DOMAIN p
    /\ Has(p, "model") => p.model \in ForecastModels
    /\ Has(p, "variable") => p.variable \in ForecastVariables
    /\ p.lead_hours >= LeadHoursMin /\ p.lead_hours <= LeadHoursMax
    /\ Len(p.bbox) >= BboxItems

ForecastValid(p) ==
    /\ ForecastRequired \subseteq DOMAIN p
    /\ Has(p, "model") => p.model \in ForecastModels
    /\ Has(p, "variable") => p.variable \in ForecastVariables
    /\ p.lead_hours >= LeadHoursMin /\ p.lead_hours <= LeadHoursMax
    /\ Len(p.bbox) >= BboxItems /\ Len(p.bbox) <= BboxItems

Forecast(p) == [f \in ForecastFields |-> IF Has(p, f) THEN p[f] ELSE ForecastDefaults[f]]

AlertVariables == {"t2m", "precip", "mslp"}

AlertComparisons == {">=", ">", "<=", "<"}

AlertFields == {"name", "variable", "threshold", "comparison", "polygon", "active"}

AlertRequired == {"name", "threshold", "polygon"}

AlertDefaults == [variable |-> "t2m", comparison |-> ">=", active |-> TRUE]

AlertValid(p) ==
    /\ AlertRequired \subseteq DOMAIN p
    /\ Has(p, "variable") => p.variable \in AlertVariables
    /\ Has(p, "comparison") => p.comparison \in AlertComparisons
    /\ Has(p, "active") => p.active \in BOOLEAN

Alert(p) == [f \in AlertFields |-> IF Has(p, f) THEN p[f] ELSE AlertDefaults[f]]

MeteogramVariables == {"t2m", "precip", "mslp"}

MeteogramFields == {"lat", "lon", "variable", "forecast_id"}

MeteogramRequired == {"lat", "lon"}

\* forecast_id: Optional[str] = None; None is written "None"
MeteogramDefaults == [variable |-> "t2m", forecast_id |-> "None"]

MeteogramRequestValid(p) ==
    /\ MeteogramRequired \subseteq DOMAIN p
    /\ Has(p, "variable") => p.variable \in MeteogramVariables

MeteogramRequest(p) == [f \in MeteogramFields |-> IF Has(p, f) THEN p[f] ELSE MeteogramDefaults[f]]

(***************************************************************************)
(* The document store gateway (module database).                           *)
(***************************************************************************)
\* the identifier the store assigns to the n-th document of a collection: unique,
\* the first nibble is the collection's (a: forecast, b: alert)
NewObjectId(tag, n) == [i \in 1..ObjectIdHexLen |-> IF i = 1 THEN tag ELSE IF i = ObjectIdHexLen THEN n % 16 ELSE IF i = ObjectIdHexLen - 1 THEN (n \div 16) % 16 ELSE 0]

ForecastTag == 10

AlertTag == 11

\* a filter matches a document when every key of it is in the document with that value
Matches(d, filt) == \A k \in DOMAIN filt : Has(d, k) /\ d[k] = filt[k]

\* get_documents(collection_name, filt, limit): the documents of the collection
\* that match, in insertion order, at most limit of them; raises when the store
\* is not available
get_documents(coll, filt, limit, ok) ==
    IF ~(db /\ ok) THEN Raise(StorageError)
    ELSE LET Test(d) == Matches(d, filt) IN Return(Take(SelectSeq(coll, Test), limit))

\* create_document(collection_name, data): writes the record, with the identifier
\* the store assigns, at the end of the collection and returns the identifier as
\* a string; raises, and writes nothing, when the store is not available
create_document(tag, coll, record, ok) ==
    IF ~(db /\ ok) THEN [outcome |-> Raise(StorageError), coll |-> coll]
    ELSE LET oid == NewObjectId(tag, Len(coll) + 1)
         IN  [outcome |-> Return(ObjectIdStr(oid)), coll |-> Append(coll, WithField(record, "_id", oid))]

(***************************************************************************)
(* The requests the model sends.                                           *)
(***************************************************************************)
PFull == [model |-> "GFS", init_time |-> "2024-01-01T00:00:00Z", lead_hours |-> 24, variable |-> "precip", bbox |-> <<0, 0, 10, 10>>, grid_res_km |-> 5, times |-> <<"2024-01-01T01:00:00Z">>, grid |-> <<[lat |-> 1, lon |-> 2, values |-> <<3>>]>>]

\* the keys with a default left out
PMinimal == [init_time |-> "2024-06-01T12:00:00Z", lead_hours |-> 240, bbox |-> <<-5, -5, 5, 5>>, times |-> <<>>, grid |-> <<>>]

\* a key the schema does not know
PExtra == WithField(PFull, "note", "x")

BadBboxes == {<<>>, <<0, 0, 10>>, <<0, 0, 10, 10, 20>>}

ForecastPayloads ==
    {PFull, PMinimal, PExtra}
    \cup {[b EXCEPT !.bbox = x] : b \in {PFull, PMinimal, [PFull EXCEPT !.lead_hours = 0]}, x \in BadBboxes}
    \cup {[PFull EXCEPT !.lead_hours = 0], [PFull EXCEPT !.lead_hours = 241], [PFull EXCEPT !.model = "UKMO"], Without(PFull, "bbox")}

ForecastQueries ==
    {Opt("model", m) @@ Opt("variable", v) @@ Opt("limit", l) :
        m \in {<<>>, <<"">>, <<"GFS">>}, v \in {<<>>, <<"t2m">>}, l \in {<<>>}}
    \cup {Opt("limit", l) : l \in {<<0>>, <<1>>, <<200>>, <<201>>, <<500>>}}

\* the identifier strings asked for: those the store may have assigned, one of
\* them in upper case, one well-formed that the store never assigns, and
\* malformed ones
Chars(n, c) == [i \in 1..n |-> c]

ForecastIds ==
    {ObjectIdStr(NewObjectId(ForecastTag, 1)), ObjectIdStr(NewObjectId(ForecastTag, 2)), ObjectIdStr(NewObjectId(AlertTag, 1))}
    \cup {[ObjectIdStr(NewObjectId(ForecastTag, 1)) EXCEPT ![1] = "A"]}
    \cup {Chars(ObjectIdHexLen, "f"), Chars(ObjectIdHexLen, "g"), Chars(ObjectIdHexLen - 1, "0"), <<"x", "y", "z">>}

AFull == [name |-> "frost", variable |-> "precip", threshold |-> 0, comparison |-> "<", polygon |-> <<<<0, 0>>, <<1, 0>>, <<1, 1>>, <<0, 0>>>>, active |-> FALSE]

AMinimal == [name |-> "heat", threshold |-> 35, polygon |-> <<>>]

AlertPayloads == {AFull, AMinimal, Without(AFull, "name"), [AFull EXCEPT !.comparison = "=="], [AFull EXCEPT !.variable = "u10"]}

AlertQueries ==
    {Opt("active", a) @@ Opt("limit", l) :
        a \in {<<>>, <<TRUE>>, <<FALSE>>}, l \in {<<>>, <<1>>}}
    \cup {Opt("limit", l) : l \in {<<0>>, <<500>>, <<501>>, <<1000>>}}

MeteogramPayloads ==
    {[lat |-> 10, lon |-> 20] @@ Opt("variable", v) @@ Opt("forecast_id", f) :
        v \in {<<>>, <<"t2m">>, <<"precip">>, <<"mslp">>, <<"u10">>}, f \in {<<>>}}
    \cup {[lat |-> -5, lon |-> 7, variable |-> "precip", forecast_id |-> "abc"], [lon |-> 20, variable |-> "t2m"]}

\* the wall clock readings, in minutes: within one hour, in the next, late in a day
ClockReadings == {0, 45, 60, 1400}

(***************************************************************************)
(* main.py: the parts of the handlers that compute.                        *)
(***************************************************************************)
ForecastLimitDefault == 20

ForecastLimitMin == 1

ForecastLimitMax == 200

AlertLimitDefault == 50

AlertLimitMin == 1

AlertLimitMax == 500

\* limit: int = Query(default, ge=.., le=..): the value the handler gets
Limit(q, default) == IF Has(q, "limit") THEN q.limit ELSE default

\* mutant: Query(default, ge=..) without le
LimitValidNoUpper(l, ge, le) == l >= ge

\* ... and whether the framework accepts it
LimitValid(l, ge, le) == l >= ge /\ l <= le

\* if d.get("_id"): d["id"] = str(d.pop("_id"))
RenameId(d) == IF Has(d, "_id") THEN WithField(Without(d, "_id"), "id", ObjectIdStr(d._id)) ELSE d

\* mutant: d["id"] = str(d["_id"]), the store's field left in
PopIdKeepsId(d) == WithField(d, "id", ObjectIdStr(d._id))

\* d["id"] = str(d.pop("_id"))
PopId(d) == WithField(Without(d, "_id"), "id", ObjectIdStr(d._id))

\* filt = {}; if model: filt["model"] = model; if variable: filt["variable"] = variable
ForecastFilter(q) ==
    (IF Has(q, "model") /\ q.model # "" THEN [model |-> q.model] ELSE EmptyDict)
    @@ (IF Has(q, "variable") /\ q.variable # "" THEN [variable |-> q.variable] ELSE EmptyDict)

\* mutant: if active: filt["active"] = active
AlertFilterTruthy(q) == IF Has(q, "active") /\ q.active THEN [active |-> q.active] ELSE EmptyDict

\* filt = {}; if active is not None: filt["active"] = active
AlertFilter(q) == IF Has(q, "active") THEN [active |-> q.active] ELSE EmptyDict

\* mutant: the insert is made twice
create_forecast_call_twice(p, ok) ==
    LET first == create_document(ForecastTag, forecast, Forecast(p), ok)
    IN  create_document(ForecastTag, first.coll, Forecast(p), ok)

\* the call of create_document in create_forecast
create_forecast_call(p, ok) == create_document(ForecastTag, forecast, Forecast(p), ok)

\* the call of create_document in create_alert
create_alert_call(p, ok) == create_document(AlertTag, alert, Alert(p), ok)

\* return {"id": inserted_id}
InsertResponse(outcome) == IF outcome.raised THEN outcome ELSE Return([id |-> outcome.value])

\* the try block of list_forecasts
list_forecasts_try(q, ok) ==
    LET docs == get_documents(forecast, ForecastFilter(q), Limit(q, ForecastLimitDefault), ok)
    IN  IF docs.raised THEN docs
        ELSE Return([i \in 1..Len(docs.value) |-> RenameId(docs.value[i])])

\* the try block of get_forecast
get_forecast_try(s, ok) ==
    IF ~ObjectIdIsValid(s) THEN Raise(InvalidId)
    ELSE LET docs == get_documents(forecast, [_id |-> ObjectId(s)], 1, ok)
         IN  IF docs.raised THEN docs
             ELSE IF docs.value = <<>> THEN Raise(HTTPException(404, "Forecast not found"))
             ELSE Return(PopId(docs.value[1]))

\* the try block of list_alerts
list_alerts_try(q, ok) ==
    LET docs == get_documents(alert, AlertFilter(q), Limit(q, AlertLimitDefault), ok)
    IN  IF docs.raised THEN docs
        ELSE Return([i \in 1..Len(docs.value) |-> RenameId(docs.value[i])])

(***************************************************************************)
(* The meteogram.  Time is in minutes; math.sin is tabulated in millionths *)
(* for the 49 arguments the code gives it.                                 *)
(***************************************************************************)
\* mutant: range(0, 48, 1)
MeteogramHoursExclusive == 49 - 1

MeteogramHours == 49

\* 10^6 * sin(i/24*2*pi), i = 0..48
SinDay ==
    <<0, 258819, 500000, 707107, 866025, 965926, 1000000,
      965926, 866025, 707107, 500000, 258819, 0, -258819,
      -500000, -707107, -866025, -965926, -1000000, -965926, -866025,
      -707107, -500000, -258819, 0, 258819, 500000, 707107,
      866025, 965926, 1000000, 965926, 866025, 707107, 500000,
      258819, 0, -258819, -500000, -707107, -866025, -965926,
      -1000000, -965926, -866025, -707107, -500000, -258819, 0>>

\* 10^6 * sin(i*0.7), i = 0..48
SinNoise ==
    <<0, 644218, 985450, 863209, 334988, -350783, -871576,
      -982453, -631267, 16814, 656987, 988168, 854599, 319098,
      -366479, -879696, -979178, -618137, 33623, 669570, 990607,
      845747, 303118, -382071, -887567, -975626, -604833, 50423,
      681964, 992766, 836656, 287053, -397556, -895187, -971798,
      -591358, 67208, 694165, 994645, 827328, 270906, -412928,
      -902555, -967696, -577715, 83974, 706169, 996242, 817766>>

\* round(base + noise, 2) with base = 15 + 10*sin(..) and noise = 1.5*sin(..),
\* in hundredths; the sum is kept in halves of a millionth
SeriesValue(i) == (30000000 + 20 * SinDay[i + 1] + 3 * SinNoise[i + 1] + 10000) \div 20000

Pad2(n) == IF n < 10 THEN "0" \o ToString(n) ELSE ToString(n)

\* datetime.isoformat() of a naive datetime, t minutes after 1970-01-01T00:00
IsoFormat(t) == "1970-01-" \o Pad2(t \div 1440 + 1) \o "T" \o Pad2((t % 1440) \div 60) \o ":" \o Pad2(t % 60) \o ":00"

\* mutant: the series is scaled by the variable
MeteogramBodyByVariable(r, t) ==
    LET start == t - (t % 60)
        times == [k \in 1..MeteogramHours |-> IsoFormat(start + 60 * (k - 1)) \o "Z"]
        series == [k \in 1..Len(times) |-> IF r.variable = "precip" THEN SeriesValue(k - 1) \div 10 ELSE SeriesValue(k - 1)]
    IN  [lat |-> r.lat, lon |-> r.lon, variable |-> r.variable, times |-> times, values |-> series,
         units |-> IF r.variable = "t2m" THEN "°C" ELSE "units"]

\* the dict generate_meteogram returns for the validated request r at time t
MeteogramBody(r, t) ==
    LET start == t - (t % 60)
        times == [k \in 1..MeteogramHours |-> IsoFormat(start + 60 * (k - 1)) \o "Z"]
        series == [k \in 1..Len(times) |-> SeriesValue(k - 1)]
    IN  [lat |-> r.lat, lon |-> r.lon, variable |-> r.variable, times |-> times, values |-> series,
         units |-> IF r.variable = "t2m" THEN "°C" ELSE "units"]

\* MeteogramBody for every request and clock reading of the model, evaluated once
MeteogramBodies ==
    [r \in {MeteogramRequest(p) : p \in {x \in MeteogramPayloads : MeteogramRequestValid(x)}}, t \in ClockReadings |-> MeteogramBody(r, t)]

(***************************************************************************)
(* The handlers.                                                           *)
(***************************************************************************)
\* no request is being served
Idle == req.op = "none"

Init ==
    /\ forecast = <<>>
    /\ alert = <<>>
    /\ db \in BOOLEAN
    /\ req = [op |-> "none"]
    /\ resp = [status |-> 0]
    /\ created = {}

root ==
    /\ Idle
    /\ req' = [op |-> "root"]
    /\ resp' = Respond(Return([message |-> "Geo-temporal Weather Forecast Platform API"]))
    /\ UNCHANGED <<forecast, alert, db, created>>

test_database ==
    \E ok \in BOOLEAN, url \in BOOLEAN, name \in {"", "weather"} :
        /\ Idle
        /\ req' = [op |-> "test_database"]
        /\ resp' = Respond(Return(
              IF ~db THEN [backend |-> "Running", database |-> "Not Available", database_url |-> "Not Set",
                           database_name |-> "Not Set", connection_status |-> "Not Connected", collections |-> {}]
              ELSE [backend |-> "Running",
                    database |-> IF ok THEN "Connected & Working" ELSE "Connected but Error",
                    database_url |-> IF url THEN "Set" ELSE "Not Set",
                    database_name |-> IF name # "" THEN name ELSE "Not Set",
                    connection_status |-> "Connected",
                    collections |-> IF ok THEN {c \in {"forecast", "alert"} : IF c = "forecast" THEN forecast # <<>> ELSE alert # <<>>} ELSE {}]))
        /\ UNCHANGED <<forecast, alert, db, created>>

create_forecast ==
    \E p \in ForecastPayloads, ok \in BOOLEAN :
        /\ Idle
        /\ req' = [op |-> "create_forecast", payload |-> p]
        /\ IF ~ForecastValid(p)
           THEN /\ resp' = RequestValidationError
                /\ UNCHANGED <<forecast, created>>
           ELSE LET r == create_forecast_call(p, ok)
                IN  /\ Len(r.coll) <= MaxForecasts
                    /\ resp' = Respond(CatchAll(InsertResponse(r.outcome)))
                    /\ forecast' = r.coll
                    /\ created' = IF r.outcome.raised THEN created
                                  ELSE created \cup {[id |-> r.outcome.value, coll |-> "forecast", payload |-> p, record |-> Forecast(p)]}
        /\ UNCHANGED <<alert, db>>

list_forecasts ==
    \E q \in ForecastQueries, ok \in BOOLEAN :
        /\ Idle
        /\ req' = [op |-> "list_forecasts", query |-> q]
        /\ resp' = IF ~LimitValid(Limit(q, ForecastLimitDefault), ForecastLimitMin, ForecastLimitMax)
                   THEN RequestValidationError
                   ELSE Respond(CatchAll(list_forecasts_try(q, ok)))
        /\ UNCHANGED <<forecast, alert, db, created>>

get_forecast ==
    \E s \in ForecastIds, ok \in BOOLEAN :
        /\ Idle
        /\ req' = [op |-> "get_forecast", forecast_id |-> s]
        /\ resp' = Respond(CatchAll(get_forecast_try(s, ok)))
        /\ UNCHANGED <<forecast, alert, db, created>>

create_alert ==
    \E p \in AlertPayloads, ok \in BOOLEAN :
        /\ Idle
        /\ req' = [op |-> "create_alert", payload |-> p]
        /\ IF ~AlertValid(p)
           THEN /\ resp' = RequestValidationError
                /\ UNCHANGED <<alert, created>>
           ELSE LET r == create_alert_call(p, ok)
                IN  /\ Len(r.coll) <= MaxAlerts
                    /\ resp' = Respond(CatchAll(InsertResponse(r.outcome)))
                    /\ alert' = r.coll
                    /\ created' = IF r.outcome.raised THEN created
                                  ELSE created \cup {[id |-> r.outcome.value, coll |-> "alert", payload |-> p, record |-> Alert(p)]}
        /\ UNCHANGED <<forecast, db>>

list_alerts ==
    \E q \in AlertQueries, ok \in BOOLEAN :
        /\ Idle
        /\ req' = [op |-> "list_alerts", query |-> q]
        /\ resp' = IF ~LimitValid(Limit(q, AlertLimitDefault), AlertLimitMin, AlertLimitMax)
                   THEN RequestValidationError
                   ELSE Respond(CatchAll(list_alerts_try(q, ok)))
        /\ UNCHANGED <<forecast, alert, db, created>>

generate_meteogram ==
    \E p \in MeteogramPayloads, now \in ClockReadings :
        /\ Idle
        /\ req' = [op |-> "generate_meteogram", payload |-> p, at |-> now]
        /\ resp' = IF ~MeteogramRequestValid(p)
                   THEN RequestValidationError
                   ELSE Respond(Return(MeteogramBodies[MeteogramRequest(p), now]))
        /\ UNCHANGED <<forecast, alert, db, created>>

\* the response is sent; the next request can be taken
Deliver ==
    /\ ~Idle
    /\ req' = [op |-> "none"]
    /\ resp' = [status |-> 0]
    /\ UNCHANGED <<forecast, alert, db, created>>

Next ==
    \/ root
    \/ test_database
    \/ create_forecast
    \/ list_forecasts
    \/ get_forecast
    \/ create_alert
    \/ list_alerts
    \/ generate_meteogram
    \/ Deliver

Spec == Init /\ [][Next]_vars

(***************************************************************************)
(* What the claims speak of.                                               *)
(***************************************************************************)
\* the forecast documents an identifier string matches
ForecastsWithId(s) == {i \in 1..Len(forecast) : forecast[i]._id = ObjectId(s)}

\* the response is the handler's answer to a store that failed
IsStorageFailure(r) == r.status = 500 /\ r.detail = StorageError.detail

\* document d of the store as the API shows it: "_id" gone, "id" its string
Shown(d, b) == Has(b, "id") /\ ~Has(b, "_id") /\ b.id = ObjectIdStr(d._id) /\ Without(b, "id") = Without(d, "_id")

Min(a, b) == IF a <= b THEN a ELSE b

(***************************************************************************)
(* C1: GET /forecasts/{id} with a well-formed identifier that matches no   *)
(* forecast record answers 404 "Forecast not found", not 500 (the store    *)
(* being available).                                                       *)
(***************************************************************************)
Claim1_NotFoundIs404 ==
    (/\ req.op = "get_forecast"
     /\ ObjectIdIsValid(req.forecast_id)
     /\ ForecastsWithId(req.forecast_id) = {}
     /\ ~IsStorageFailure(resp))
    => (resp.status = 404 /\ resp.detail = "Forecast not found")

(***************************************************************************)
(* C2, as stated: a limit above the upper bound (200 for forecasts, 500    *)
(* for alerts) gives the same response as the same request with the limit  *)
(* at the upper bound.                                                     *)
(***************************************************************************)
Claim2_LimitClamped ==
    /\ (req.op = "list_forecasts" /\ Limit(req.query, ForecastLimitDefault) > ForecastLimitMax)
       => \E ok \in BOOLEAN : resp = Respond(CatchAll(list_forecasts_try(WithField(req.query, "limit", ForecastLimitMax), ok)))
    /\ (req.op = "list_alerts" /\ Limit(req.query, AlertLimitDefault) > AlertLimitMax)
       => \E ok \in BOOLEAN : resp = Respond(CatchAll(list_alerts_try(WithField(req.query, "limit", AlertLimitMax), ok)))

(***************************************************************************)
(* C2, amended: a limit above the upper bound is rejected with a 422       *)
(* validation response and no document is returned; a limit within the     *)
(* bounds is applied as given (at most that many documents come back).     *)
(***************************************************************************)
Thm2_LimitRejected ==
    /\ (req.op = "list_forecasts" /\ Limit(req.query, ForecastLimitDefault) > ForecastLimitMax)
       => resp = [status |-> 422, detail |-> "validation error"]
    /\ (req.op = "list_alerts" /\ Limit(req.query, AlertLimitDefault) > AlertLimitMax)
       => resp = [status |-> 422, detail |-> "validation error"]
    /\ (req.op = "list_forecasts" /\ resp.status = 200)
       => Len(resp.body) <= Limit(req.query, ForecastLimitDefault) /\ Limit(req.query, ForecastLimitDefault) \in 1..200
    /\ (req.op = "list_alerts" /\ resp.status = 200)
       => Len(resp.body) <= Limit(req.query, AlertLimitDefault) /\ Limit(req.query, AlertLimitDefault) \in 1..500

Wit2_OverLimitRejected ==
    /\ req.op = "list_forecasts"
    /\ Has(req.query, "limit") /\ req.query.limit = 500
    /\ resp.status = 422
    /\ Len(forecast) = MaxForecasts

(***************************************************************************)
(* C3, as stated: after POST /forecasts returned id X, a successful        *)
(* GET /forecasts/X returns the posted payload's fields plus "id" = X and  *)
(* no "_id".                                                               *)
(***************************************************************************)
Claim3_RoundTripPayload ==
    \A c \in created :
        (c.coll = "forecast" /\ req.op = "get_forecast" /\ req.forecast_id = c.id /\ resp.status = 200)
        => (resp.body = WithField(c.payload, "id", c.id) /\ ~Has(resp.body, "_id"))

(***************************************************************************)
(* C3, amended: after POST /forecasts returned id X, GET /forecasts/X      *)
(* succeeds whenever the store answers, and returns the fields of the      *)
(* validated Forecast built from the payload (the posted fields, and the   *)
(* schema's default for each of model, variable and grid_res_km that the   *)
(* payload left out) plus "id" = X, a string, and no "_id".                *)
(***************************************************************************)
Thm3_RoundTripValidated ==
    \A c \in created :
        (c.coll = "forecast" /\ req.op = "get_forecast" /\ req.forecast_id = c.id /\ ~IsStorageFailure(resp))
        => /\ resp.status = 200
           /\ DOMAIN resp.body = ForecastFields \cup {"id"}
           /\ resp.body.id = c.id
           /\ \A f \in ForecastFields :
                resp.body[f] = IF Has(c.payload, f) THEN c.payload[f]
                               ELSE IF f = "model" THEN "WRF" ELSE IF f = "variable" THEN "t2m" ELSE 10

Wit3_RoundTripDefaults ==
    \E c \in created :
        /\ c.coll = "forecast" /\ ~Has(c.payload, "model")
        /\ req.op = "get_forecast" /\ req.forecast_id = c.id
        /\ resp.status = 200

(***************************************************************************)
(* C4: a POST /forecasts whose bbox has not exactly 4 elements fails       *)
(* validation, whatever the other fields are, and inserts nothing: both    *)
(* collections are as before.                                              *)
(***************************************************************************)
BadBbox(p) == Has(p, "bbox") /\ Len(p.bbox) # 4

Thm4_BadBboxRejected ==
    [][(req'.op = "create_forecast" /\ BadBbox(req'.payload))
       => (resp'.status = 422 /\ forecast' = forecast /\ alert' = alert /\ created' = created)]_vars

Wit4_BadBboxRejected ==
    /\ req.op = "create_forecast" /\ BadBbox(req.payload)
    /\ Has(req.payload, "model") /\ req.payload.lead_hours = 24
    /\ resp.status = 422
    /\ forecast # <<>>

(***************************************************************************)
(* C5, as stated: GET /alerts?active=true returns only records whose flag  *)
(* is true, active=false only records whose flag is false, and without the *)
(* parameter all alert records.                                            *)
(***************************************************************************)
Claim5_ActiveFilter ==
    (req.op = "list_alerts" /\ resp.status = 200)
    => /\ Has(req.query, "active") => \A i \in 1..Len(resp.body) : resp.body[i].active = req.query.active
       /\ ~Has(req.query, "active")
          => /\ Len(resp.body) = Len(alert)
             /\ \A i \in 1..Len(alert) : Shown(alert[i], resp.body[i])

(***************************************************************************)
(* C5, amended: active=true returns only records whose flag is true,       *)
(* active=false only records whose flag is false; without the parameter no *)
(* filter is applied, and the response is the alert records in store order *)
(* up to the limit (default 50): all of them when there are no more than   *)
(* limit.                                                                  *)
(***************************************************************************)
Thm5_ActiveFilterUpToLimit ==
    (req.op = "list_alerts" /\ resp.status = 200)
    => /\ Has(req.query, "active") => \A i \in 1..Len(resp.body) : resp.body[i].active = req.query.active
       /\ ~Has(req.query, "active")
          => /\ Len(resp.body) = Min(Len(alert), Limit(req.query, AlertLimitDefault))
             /\ \A i \in 1..Len(resp.body) : Shown(alert[i], resp.body[i])

Wit5_InactiveOnly ==
    /\ req.op = "list_alerts" /\ resp.status = 200
    /\ Has(req.query, "active") /\ req.query.active = FALSE
    /\ Len(resp.body) = 1
    /\ \E i \in 1..Len(alert) : alert[i].active

(***************************************************************************)
(* C6: for every valid MeteogramRequest, POST /meteogram returns 49        *)
(* timestamps, hourly from the hour of the request to 48 hours later, and  *)
(* 49 values, values[0] is 15.0, and units is "°C" when the variable is    *)
(* "t2m".                                                                  *)
(***************************************************************************)
Thm6_Meteogram49 ==
    (req.op = "generate_meteogram" /\ {"lat", "lon"} \subseteq DOMAIN req.payload
        /\ (Has(req.payload, "variable") => req.payload.variable \in {"t2m", "precip", "mslp"}))
    => /\ resp.status = 200
       /\ Len(resp.body.times) = 49
       /\ Len(resp.body.values) = 49
       /\ resp.body.values[1] = 1500
       /\ \A k \in 0..48 : resp.body.times[k + 1] = IsoFormat((req.at \div 60) * 60 + 60 * k) \o "Z"
       /\ (~Has(req.payload, "variable") \/ resp.body.variable = "t2m") => resp.body.units = "°C"

Wit6_MeteogramT2m ==
    /\ req.op = "generate_meteogram" /\ resp.status = 200
    /\ req.payload = [lat |-> 10, lon |-> 20, variable |-> "t2m"]
    /\ req.at = 45

(***************************************************************************)
(* C7: the value sequence of a meteogram response is the same for every    *)
(* other valid request, whatever its variable, lat, lon, forecast_id and   *)
(* time of invocation; units is "units" for every variable but "t2m".      *)
(***************************************************************************)
Thm7_ValuesIndependent ==
    (req.op = "generate_meteogram" /\ resp.status = 200)
    => /\ \A p \in MeteogramPayloads, t \in ClockReadings :
            MeteogramRequestValid(p) => MeteogramBody(MeteogramRequest(p), t).values = resp.body.values
       /\ resp.body.variable # "t2m" => resp.body.units = "units"

Wit7_Precip ==
    /\ req.op = "generate_meteogram" /\ resp.status = 200
    /\ resp.body.variable = "precip" /\ resp.body.lat = -5
    /\ req.at = 1400

(***************************************************************************)
(* C8, as stated: every failure of POST /forecasts, of validation or of    *)
(* the store, ends with a 500-class response.                              *)
(***************************************************************************)
Claim8_AnyFailureIs500 ==
    (req.op = "create_forecast" /\ resp.status # 200) => resp.status \in 500..599

(***************************************************************************)
(* C8, amended: a body that fails Forecast validation is answered 422 by   *)
(* the framework, before the handler runs; a failure of the store insert   *)
(* is answered 500 with the error message.  The two are told apart by      *)
(* their status.                                                           *)
(***************************************************************************)
Thm8_ValidationIs422StoreIs500 ==
    req.op = "create_forecast"
    => /\ ~ForecastValid(req.payload) => resp.status = 422
       /\ ForecastValid(req.payload) => (resp.status = 200 \/ (resp.status = 500 /\ resp.detail = "Database not available"))

Wit8_StoreFailure ==
    /\ req.op = "create_forecast" /\ ForecastValid(req.payload)
    /\ resp.status = 500
    /\ db

(***************************************************************************)
(* C9: GET /forecasts/{id} with a malformed identifier ends with an        *)
(* outcome whose status differs from that of every well-formed identifier  *)
(* that matches no record (the store being available).                     *)
(***************************************************************************)
Claim9_FormatErrorDistinct ==
    (req.op = "get_forecast" /\ ~ObjectIdIsValid(req.forecast_id))
    => \A s \in ForecastIds :
          (ObjectIdIsValid(s) /\ ForecastsWithId(s) = {} /\ db)
          => Respond(CatchAll(get_forecast_try(s, TRUE))).status # resp.status

(***************************************************************************)
(* C10: persisted records are immutable.  Every step keeps the documents   *)
(* of both collections as they are, in place; a successful POST adds       *)
(* exactly one document, the validated record with its identifier, to its  *)
(* collection; a failed POST, every GET and POST /meteogram change no      *)
(* collection; every record ever created is in its collection with the     *)
(* field values it was created with.                                       *)
(***************************************************************************)
Kept(old, new) == Len(old) <= Len(new) /\ \A i \in 1..Len(old) : new[i] = old[i]

Persisted(c, coll) == \E i \in 1..Len(coll) : ObjectIdStr(coll[i]._id) = c.id /\ Without(coll[i], "_id") = c.record

Thm10_RecordsImmutable ==
    [][/\ Kept(forecast, forecast') /\ Kept(alert, alert')
       /\ req'.op \in {"none", "root", "test_database", "list_forecasts", "get_forecast", "list_alerts", "generate_meteogram"}
          => (forecast' = forecast /\ alert' = alert)
       /\ req'.op \in {"create_forecast", "create_alert"} /\ resp'.status # 200
          => (forecast' = forecast /\ alert' = alert)
       /\ req'.op = "create_forecast" /\ resp'.status = 200
          => (Len(forecast') = Len(forecast) + 1 /\ alert' = alert)
       /\ req'.op = "create_alert" /\ resp'.status = 200
          => (Len(alert') = Len(alert) + 1 /\ forecast' = forecast)
       /\ \A c \in created' : Persisted(c, IF c.coll = "forecast" THEN forecast' ELSE alert')]_vars

Wit10_ListLeavesStore ==
    /\ req.op = "list_forecasts" /\ resp.status = 200
    /\ Len(resp.body) = 2 /\ Has(resp.body[1], "id")
    /\ Len(forecast) = 2 /\ Has(forecast[1], "_id")
    /\ Len(alert) = 1

====
